---- MODULE Spec2Model ----
(***************************************************************************)
(* A model of src/src/TemplateEngine.ts: the template registry (reload,    *)
(* scanDirectory, normalizeName), the render facade (render,               *)
(* renderWithLayout) and the directive expander (renderContent,            *)
(* applyLoops, applyConditionals, applyIncludes, interpolate, escapeHtml,  *)
(* parseAttributes, safeEval).                                             *)
(*                                                                         *)
(* Markup is a sequence of lexemes.  A lexeme is either one piece of text  *)
(* (a special character, or a run of characters none of which is special)  *)
(* or one whole syntactic unit that the regular expressions of the code    *)
(* match as a unit: an open tag, a close tag, a self-closing tag, a        *)
(* {{ expr }} site, a {{{ expr }}} site, a name directive comment.         *)
(* JavaScript values are tagged records.                                   *)
(***************************************************************************)
EXTENDS Integers, Sequences, FiniteSets, TLC

VARIABLES
    fs,                    \* the disk: what each configured directory holds
    caseInsensitiveNames,  \* the constructor option
    templateNameToRecord,  \* the registry
    call,                  \* the public method being executed, its arguments
    stack,                 \* the call stack of the directive expander
    evaluated,             \* the expressions safeEval was given during the call
    included,              \* the templates applyIncludes expanded during the call
    result                 \* what the last call returned or threw

vars ==
    <<fs, caseInsensitiveNames, templateNameToRecord, call, stack, evaluated, included,
      result>>

(***************************************************************************)
(* Lexemes                                                                 *)
(***************************************************************************)
NoExpr == <<>>

Ch(c) == [k |-> "ch", c |-> c]

Open(tag, xfor, xrow, xif, attrs) ==
    [k |-> "open", tag |-> tag, xfor |-> xfor, xrow |-> xrow, xif |-> xif, attrs |-> attrs]

Close(tag) == [k |-> "close", tag |-> tag]

Self(tag, attrs) == [k |-> "self", tag |-> tag, attrs |-> attrs]

Mu(expr) == [k |-> "mu", expr |-> expr]

Raw(expr) == [k |-> "raw", expr |-> expr]

NameDir(name) == [k |-> "namedir", name |-> name]

\* One attribute of a self-closing tag: key="literal" or key="{{ expr }}".
AttrLit(key, lit) == [key |-> key, isExpr |-> FALSE, expr |-> NoExpr, lit |-> lit]

AttrExpr(key, expr) == [key |-> key, isExpr |-> TRUE, expr |-> expr, lit |-> <<>>]

Text(cs) == [i \in 1..Len(cs) |-> Ch(cs[i])]

RECURSIVE Flatten(_)
Flatten(ss) == IF ss = <<>> THEN <<>> ELSE Head(ss) \o Flatten(Tail(ss))

\* The source text of an expression: a property path a.b.c
RECURSIVE ExprText(_)
ExprText(e) ==
    IF e = <<>> THEN <<>>
    ELSE IF Len(e) = 1 THEN <<Ch(e[1])>>
    ELSE <<Ch(e[1]), Ch(".")>> \o ExprText(Tail(e))

(***************************************************************************)
(* JavaScript values                                                       *)
(***************************************************************************)
Undef == [t |-> "undefined"]

Null == [t |-> "null"]

Bool(b) == [t |-> "boolean", b |-> b]

Num(n) == [t |-> "number", n |-> n]

Str(s) == [t |-> "string", s |-> s]

Arr(a) == [t |-> "array", a |-> a]

Obj(o) == [t |-> "object", o |-> o]

Fn(name) == [t |-> "function", f |-> name]

EmptyMap == [x \in {} |-> Undef]

IsNullish(v) == v.t \in {"undefined", "null"}

\* Array.isArray
IsArray(v) == v.t = "array"

\* Boolean(v)
ToBoolean(v) ==
    CASE v.t = "undefined" -> FALSE
      [] v.t = "null" -> FALSE
      [] v.t = "boolean" -> v.b
      [] v.t = "number" -> v.n # 0
      [] v.t = "string" -> v.s # <<>>
      [] OTHER -> TRUE

\* String(v)
RECURSIVE ToStr(_)
RECURSIVE JoinComma(_)
ToStr(v) ==
    CASE v.t = "undefined" -> Text(<<"undefined">>)
      [] v.t = "null" -> Text(<<"null">>)
      [] v.t = "boolean" -> IF v.b THEN Text(<<"true">>) ELSE Text(<<"false">>)
      [] v.t = "number" -> Text(<<ToString(v.n)>>)
      [] v.t = "string" -> v.s
      [] v.t = "array" -> JoinComma(v.a)
      [] v.t = "object" -> Text(<<"[object Object]">>)
      [] OTHER -> Text(<<"function ", v.f, "() { [native code] }">>)

JoinComma(a) ==
    IF a = <<>> THEN <<>>
    ELSE LET h == IF IsNullish(a[1]) THEN <<>> ELSE ToStr(a[1])
         IN IF Len(a) = 1 THEN h ELSE h \o <<Ch(",")>> \o JoinComma(Tail(a))

(***************************************************************************)
(* Names                                                                   *)
(***************************************************************************)
\* String.prototype.toLowerCase on one character
ToLowerCase(c) ==
    CASE c = "User" -> "user"
      [] c = "USER" -> "user"
      [] c = "Card" -> "card"
      [] c = "Row" -> "row"
      [] c = "P" -> "p"
      [] c = ".HTML" -> ".html"
      [] OTHER -> c

IsSpace(c) == c \in {" ", "\t", "\n"}

RECURSIVE TrimStart(_)
TrimStart(s) == IF s # <<>> /\ IsSpace(Head(s)) THEN TrimStart(Tail(s)) ELSE s

RECURSIVE TrimEnd(_)
TrimEnd(s) ==
    IF s # <<>> /\ IsSpace(s[Len(s)]) THEN TrimEnd(SubSeq(s, 1, Len(s) - 1)) ELSE s

\* String.prototype.trim
Trim(s) == TrimEnd(TrimStart(s))

\* normalizeName without its trim().
normalizeName_NoTrim(name) ==
    IF caseInsensitiveNames
    THEN [i \in 1..Len(name) |-> ToLowerCase(name[i])]
    ELSE name

normalizeName(name) ==
    IF caseInsensitiveNames
    THEN [i \in 1..Len(Trim(name)) |-> ToLowerCase(Trim(name)[i])]
    ELSE Trim(name)

(***************************************************************************)
(* escapeHtml                                                              *)
(***************************************************************************)
Quoted(s) == <<Ch("\"")>> \o s \o <<Ch("\"")>>

AttrText(a) ==
    <<Ch(" "), Ch(a.key), Ch("=")>>
        \o Quoted(IF a.isExpr THEN <<Mu(a.expr)>> ELSE a.lit)

\* The characters a lexeme stands for.  A {{ }} or {{{ }}} site stays one
\* lexeme: it holds none of the five characters escapeHtml replaces.
Explode(tok) ==
    CASE tok.k = "open" ->
            <<Ch("<")>> \o Text(tok.tag)
            \o (IF tok.xfor = NoExpr THEN <<>>
                ELSE <<Ch(" x-for=")>> \o Quoted(ExprText(tok.xfor)))
            \o (IF tok.xrow = "" THEN <<>>
                ELSE <<Ch(" x-row=")>> \o Quoted(<<Ch(tok.xrow)>>))
            \o (IF tok.xif = NoExpr THEN <<>>
                ELSE <<Ch(" x-if=")>> \o Quoted(ExprText(tok.xif)))
            \o tok.attrs \o <<Ch(">")>>
      [] tok.k = "close" -> <<Ch("<"), Ch("/")>> \o Text(tok.tag) \o <<Ch(">")>>
      [] tok.k = "self" ->
            <<Ch("<")>> \o Text(tok.tag)
            \o Flatten([i \in 1..Len(tok.attrs) |-> AttrText(tok.attrs[i])])
            \o <<Ch("/"), Ch(">")>>
      [] tok.k = "namedir" ->
            <<Ch("<"), Ch("!-- @template name=")>> \o Quoted(Text(tok.name))
            \o <<Ch(" --"), Ch(">")>>
      [] OTHER -> <<tok>>

Chars(s) == Flatten([i \in 1..Len(s) |-> Explode(s[i])])

\* str.replace(/c/g, rep) on a string of characters
ReplaceAll(s, c, rep) ==
    Flatten([i \in 1..Len(s) |-> IF s[i] = Ch(c) THEN rep ELSE <<s[i]>>])

escapeHtml(str) ==
    ReplaceAll(
      ReplaceAll(
        ReplaceAll(
          ReplaceAll(
            ReplaceAll(Chars(str), "&", Text(<<"&", "amp;">>)),
            "\"", Text(<<"&", "quot;">>)),
          "'", Text(<<"&", "#39;">>)),
        "<", Text(<<"&", "lt;">>)),
      ">", Text(<<"&", "gt;">>))

(***************************************************************************)
(* Scopes and safeEval                                                     *)
(***************************************************************************)
\* Members every ordinary object inherits from Object.prototype.
ObjectPrototype == {"constructor", "toString", "valueOf", "hasOwnProperty"}

\* Some members of globalThis of the host.
GlobalThis == ("process" :> Obj("pid" :> Num(1))) @@ ("Object" :> Fn("Object"))

\* A data object as the expander passes it around: its own properties, and
\* whether it inherits from Object.prototype (an object literal does, the
\* root context made by Object.create(null) does not).
Scope(own, proto) == [own |-> own, proto |-> proto]

\* The own enumerable properties of a value, as { ...v } and Object.assign
\* copy them.
OwnProps(v) ==
    CASE v.t = "object" -> v.o
      [] v.t = "array" -> [i \in {ToString(j - 1) : j \in 1..Len(v.a)} |->
                              v.a[CHOOSE j \in 1..Len(v.a) : ToString(j - 1) = i]]
      [] OTHER -> EmptyMap

createRootDataProxy(data) ==
    Scope(IF data.t \in {"object", "array"}
          THEN OwnProps(data) @@ ("$root" :> data)
          ELSE ("$root" :> data), FALSE)

\* The get trap of createEvalScope for the identifier p.
ScopeGet(data, p) ==
    IF p \in DOMAIN data.own THEN data.own[p]
    ELSE IF data.proto /\ p \in ObjectPrototype THEN Fn(p)
    ELSE IF p \in DOMAIN GlobalThis THEN GlobalThis[p]
    ELSE Undef

\* v.p in JavaScript; a property of null or undefined is a TypeError.
GetProp(v, p) ==
    CASE IsNullish(v) -> [err |-> TRUE, val |-> Undef]
      [] v.t = "object" ->
            [err |-> FALSE,
             val |-> IF p \in DOMAIN v.o THEN v.o[p]
                     ELSE IF p \in ObjectPrototype THEN Fn(p) ELSE Undef]
      [] v.t = "array" ->
            [err |-> FALSE,
             val |-> IF p = "length" THEN Num(Len(v.a))
                     ELSE IF p \in ObjectPrototype THEN Fn(p) ELSE Undef]
      [] OTHER ->
            [err |-> FALSE, val |-> IF p \in ObjectPrototype THEN Fn(p) ELSE Undef]

RECURSIVE EvalPath(_, _)
EvalPath(v, path) ==
    IF path = <<>> THEN [err |-> FALSE, val |-> v]
    ELSE LET r == GetProp(v, Head(path))
         IN IF r.err THEN r ELSE EvalPath(r.val, Tail(path))

\* An expression the Function constructor rejects.
SyntaxErrorExpr == <<")(">>

\* What the {{ }} regex captures at a {{{ e }}} site: "{ e".
BraceExpr(e) == <<"{">> \o e

IsSyntaxError(expression) ==
    expression = NoExpr \/ expression = SyntaxErrorExpr \/ Head(expression) = "{"

\* safeEval: [err |-> TRUE] stands for the rethrown
\* 'Expression evaluation failed for "<expression>"' error.
safeEval(expression, data) ==
    IF IsSyntaxError(expression)
    THEN [err |-> TRUE, val |-> Undef]
    ELSE EvalPath(ScopeGet(data, Head(expression)), Tail(expression))

safeEvalBoolean(expression, data) ==
    LET r == safeEval(expression, data)
    IN [err |-> r.err, val |-> Bool(ToBoolean(r.val))]

RECURSIVE parseAttributes(_, _)
parseAttributes(attrs, data) ==
    IF attrs = <<>>
    THEN [err |-> FALSE, expr |-> NoExpr, val |-> EmptyMap, evals |-> {}]
    ELSE LET a == Head(attrs)
             v == IF a.isExpr THEN safeEval(a.expr, data)
                  ELSE [err |-> FALSE, val |-> Str(a.lit)]
             mine == IF a.isExpr THEN {a.expr} ELSE {}
             rest == parseAttributes(Tail(attrs), data)
         IN IF v.err
            THEN [err |-> TRUE, expr |-> a.expr, val |-> EmptyMap, evals |-> mine]
            ELSE [rest EXCEPT !.val = IF rest.err THEN EmptyMap
                                      ELSE rest.val @@ (a.key :> v.val),
                              !.evals = rest.evals \cup mine]


(***************************************************************************)
(* interpolate                                                             *)
(***************************************************************************)
\* One html.replace(regex, callback) of interpolate.  With triple = TRUE the
\* regex is /\{\{\{\s*([^}]+?)\s*\}\}\}/g and matches the {{{ }}} sites;
\* with triple = FALSE it is /\{\{\s*([^}]+?)\s*\}\}/g, which matches the
\* {{ }} sites and, at a {{{ e }}} site, the text "{{{ e }}" with the
\* expression "{ e", which is no expression (the last "}" stays, as text of
\* an html that is never returned).
RECURSIVE ReplaceSites(_, _, _)
ReplaceSites(html, data, triple) ==
    IF html = <<>>
    THEN [err |-> FALSE, expr |-> NoExpr, out |-> <<>>, evals |-> {}]
    ELSE LET tok == Head(html)
             site == IF triple THEN tok.k = "raw" ELSE tok.k \in {"mu", "raw"}
             expr == IF ~triple /\ tok.k = "raw" THEN BraceExpr(tok.expr) ELSE tok.expr
             v == safeEval(expr, data)
             rest == ReplaceSites(Tail(html), data, triple)
             text == IF IsNullish(v.val) THEN <<>>
                     ELSE IF triple THEN ToStr(v.val)
                     ELSE escapeHtml(ToStr(v.val))
         IN IF ~site
            THEN [rest EXCEPT !.out = IF rest.err THEN <<>> ELSE <<tok>> \o rest.out]
            ELSE IF v.err
            THEN [err |-> TRUE, expr |-> expr, out |-> <<>>, evals |-> {expr}]
            ELSE [rest EXCEPT !.out = IF rest.err THEN <<>> ELSE text \o rest.out,
                              !.evals = rest.evals \cup {expr}]

interpolate(html, data) ==
    LET first == ReplaceSites(html, data, TRUE)
        second == ReplaceSites(first.out, data, FALSE)
    IN IF first.err THEN first
       ELSE [second EXCEPT !.evals = first.evals \cup second.evals]

(***************************************************************************)
(* The call stack of the directive expander                                *)
(***************************************************************************)
MaxDepth == 50

RCFrame(source, data, renderStack, depth) ==
    [fn |-> "renderContent", phase |-> "enter", html |-> source, data |-> data,
     renderStack |-> renderStack, depth |-> depth]

\* A frame of applyLoops, applyConditionals or applyIncludes: the replace()
\* in progress over html (pos: where the search goes on, acc: the result so
\* far) and, while its callback waits for a nested renderContent (cb), the
\* match [ms, me] and the state of the callback.
PassFrame(fn, html, data, renderStack, depth) ==
    [fn |-> fn, html |-> html, pos |-> 1, acc |-> <<>>, didReplace |-> FALSE,
     data |-> data, renderStack |-> renderStack, depth |-> depth,
     cb |-> FALSE, ms |-> 0, me |-> 0,
     index |-> 0, pieces |-> <<>>, iterable |-> Undef, alias |-> ""]

Top == stack[Len(stack)]

Below == SubSeq(stack, 1, Len(stack) - 1)

Running(fn) == stack # <<>> /\ Top.fn = fn

\* The first close tag </tag> after position s, 0 if there is none.
FirstClose(html, s, tag) ==
    IF \E e \in (s + 1)..Len(html) : html[e].k = "close" /\ html[e].tag = tag
    THEN CHOOSE e \in (s + 1)..Len(html) :
            /\ html[e].k = "close" /\ html[e].tag = tag
            /\ \A x \in (s + 1)..(e - 1) : ~(html[x].k = "close" /\ html[x].tag = tag)
    ELSE 0

\* forRegex and ifRegex: the leftmost open tag at or after pos that carries
\* the attribute (xfor or xif) and has a close tag of its name after it; the
\* lazy ([\s\S]*?)<\/\1> ends the match at the first such close tag.
IsElementAt(html, s, attr) ==
    /\ html[s].k = "open"
    /\ html[s][attr] # NoExpr
    /\ FirstClose(html, s, html[s].tag) # 0

MatchElement(html, pos, attr) ==
    IF \E s \in pos..Len(html) : IsElementAt(html, s, attr)
    THEN LET s == CHOOSE x \in pos..Len(html) :
                    /\ IsElementAt(html, x, attr)
                    /\ \A y \in pos..(x - 1) : ~IsElementAt(html, y, attr)
         IN [found |-> TRUE, ms |-> s, me |-> FirstClose(html, s, html[s].tag)]
    ELSE [found |-> FALSE, ms |-> 0, me |-> 0]

\* includeTagRegex with the callback's "not an include tag" test: the
\* leftmost self-closing tag at or after pos whose normalized name is
\* registered.  (The callback returns the others unchanged.)
IsIncludeAt(html, s) ==
    /\ html[s].k = "self"
    /\ normalizeName(html[s].tag) \in DOMAIN templateNameToRecord

MatchInclude(html, pos) ==
    IF \E s \in pos..Len(html) : IsIncludeAt(html, s)
    THEN LET s == CHOOSE x \in pos..Len(html) :
                    /\ IsIncludeAt(html, x)
                    /\ \A y \in pos..(x - 1) : ~IsIncludeAt(html, y)
         IN [found |-> TRUE, ms |-> s, me |-> s]
    ELSE [found |-> FALSE, ms |-> 0, me |-> 0]

\* { ...data, [alias]: row, $index: index }
ChildData(data, alias, row, index) ==
    Scope(("$index" :> Num(index)) @@ (alias :> row) @@ data.own, TRUE)

\* { ...data, ...attributes }
MergedData(data, attributes) == Scope(attributes @@ data.own, TRUE)

\* The open tag a loop emits: x-for and x-row removed.
LoopOpenTag(tok) == [tok EXCEPT !.xfor = NoExpr, !.xrow = ""]

\* The open tag a conditional emits: x-if removed.
IfOpenTag(tok) == [tok EXCEPT !.xif = NoExpr]


(***************************************************************************)
(* The registry: reload, scanDirectory, extractTemplateName                *)
(***************************************************************************)
directories == <<"views", "shared">>

extensions == {".html", ".htm", ".tpl", ".tpl.html"}

File(base, ext, content) ==
    [isDirectory |-> FALSE, base |-> base, ext |-> ext, content |-> content]

SubDir(name, entries) ==
    [isDirectory |-> TRUE, base |-> <<name>>, ext |-> "", entries |-> entries]

\* A directory on disk: whether it exists, whether reading it fails
\* (readdirSync throws: no permission, not a directory), what it lists.
Dir(exists, fails, entries) == [exists |-> exists, fails |-> fails, entries |-> entries]

\* content.match(nameDirective): the first name directive, trimmed; <<>>
\* stands for null.
extractTemplateName(content) ==
    IF \E i \in 1..Len(content) : content[i].k = "namedir"
    THEN Trim(content[CHOOSE i \in 1..Len(content) :
                        /\ content[i].k = "namedir"
                        /\ \A j \in 1..(i - 1) : content[j].k # "namedir"].name)
    ELSE <<>>

\* One file of the loop of scanDirectory: the registry after it.
RegisterFile(reg, path, e) ==
    IF ToLowerCase(e.ext) \notin extensions THEN reg
    ELSE LET declared == extractTemplateName(e.content)
             name == IF declared # <<>> THEN declared ELSE e.base
             normalizedName == normalizeName(name)
         IN (normalizedName :>
                [name |-> normalizedName, filePath |-> path \o e.base \o <<e.ext>>,
                 content |-> e.content]) @@ reg

\* The loop of scanDirectory over the entries of a directory that was read,
\* in the order listed (the first half of the list, then the second); a
\* subdirectory is scanned where it is listed.
RECURSIVE ScanEntries(_, _, _)
ScanEntries(entries, path, reg) ==
    IF entries = <<>> THEN [err |-> FALSE, reg |-> reg]
    ELSE IF Len(entries) = 1
    THEN IF entries[1].isDirectory
         THEN ScanEntries(entries[1].entries, path \o entries[1].base, reg)
         ELSE [err |-> FALSE, reg |-> RegisterFile(reg, path, entries[1])]
    ELSE LET half == Len(entries) \div 2
             r == ScanEntries(SubSeq(entries, 1, half), path, reg)
         IN IF r.err THEN r
            ELSE ScanEntries(SubSeq(entries, half + 1, Len(entries)), path, r.reg)

scanDirectory(disk, directory, reg) ==
    IF ~disk[directory].exists THEN [err |-> FALSE, reg |-> reg]
    ELSE IF disk[directory].fails THEN [err |-> TRUE, reg |-> reg]
    ELSE ScanEntries(disk[directory].entries, <<directory>>, reg)

\* reload: clear(), then scanDirectory for each directory in turn; an
\* exception of scanDirectory ends the loop where it is.
RECURSIVE ScanAll(_, _, _)
ScanAll(disk, dirs, reg) ==
    IF dirs = <<>> THEN [err |-> FALSE, reg |-> reg]
    ELSE LET r == scanDirectory(disk, Head(dirs), reg)
         IN IF r.err THEN r ELSE ScanAll(disk, Tail(dirs), r.reg)

reload(disk) == ScanAll(disk, directories, EmptyMap)

(***************************************************************************)
(* Calls and results                                                       *)
(***************************************************************************)
NoResult == [status |-> "none", out |-> <<>>, err |-> "", info |-> <<>>]

Returned(out) == [status |-> "ok", out |-> out, err |-> "", info |-> <<>>]

Thrown(err, info) == [status |-> "error", out |-> <<>>, err |-> err, info |-> info]

\* A call: the method, its arguments, how far it is (stage), the inner HTML
\* renderWithLayout holds.  again and first belong to a caller that, after a
\* renderWithLayout, makes its two render calls itself: which of the two
\* this call is, and what renderWithLayout had returned or thrown.
NoCall ==
    [op |-> "none", templateName |-> <<>>, layoutTemplateName |-> <<>>,
     contentVarName |-> "", data |-> Undef, stage |-> "done", innerHtml |-> <<>>,
     again |-> "", first |-> NoResult]

RenderCall(templateName, data) ==
    [NoCall EXCEPT !.op = "render", !.templateName = templateName, !.data = data,
                   !.stage = "render"]

LayoutCall(layoutTemplateName, innerTemplateName, data, contentVarName) ==
    [NoCall EXCEPT !.op = "renderWithLayout", !.templateName = innerTemplateName,
                   !.layoutTemplateName = layoutTemplateName, !.data = data,
                   !.contentVarName = contentVarName, !.stage = "inner"]

Idle == stack = <<>> /\ call.stage = "done"

\* throw: the exception leaves every frame; nothing in the engine catches it.
Throw(err, info, evals) ==
    /\ stack' = <<>>
    /\ result' = Thrown(err, info)
    /\ call' = [call EXCEPT !.stage = "done"]
    /\ evaluated' = evaluated \cup evals
    /\ UNCHANGED <<fs, caseInsensitiveNames, templateNameToRecord, included>>

\* The body of render for the call c: the lookup and the first frame.
render(c, templateName, data) ==
    LET normalizedName == normalizeName(templateName)
    IN IF normalizedName \notin DOMAIN templateNameToRecord
       THEN /\ stack' = <<>>
            /\ result' = Thrown("TemplateNotFound", templateName)
            /\ call' = [c EXCEPT !.stage = "done"]
       ELSE /\ stack' = <<RCFrame(templateNameToRecord[normalizedName].content,
                                  createRootDataProxy(data), <<>>, 0)>>
            /\ result' = NoResult
            /\ call' = c

\* { ...(data as any), [contentVarName]: innerHtml }
LayoutData(data, contentVarName, innerHtml) ==
    Obj((contentVarName :> Str(innerHtml)) @@ OwnProps(data))


(***************************************************************************)
(* The directive expander, one step at a time                              *)
(***************************************************************************)
Engine == <<fs, caseInsensitiveNames, templateNameToRecord>>

\* The depth check with >= for >.
DepthExceeded_AtCeiling(depth) == depth >= MaxDepth

\* if (depth > 50)
DepthExceeded(depth) == depth > MaxDepth

\* renderContent up to its call of applyLoops: the depth check, the BOM.
RenderContent ==
    /\ Running("renderContent") /\ Top.phase = "enter"
    /\ IF DepthExceeded(Top.depth)
       THEN Throw("RenderDepthExceeded", <<>>, {})
       ELSE LET html == IF Top.html # <<>> /\ Top.html[1] = Ch("BOM")
                        THEN Tail(Top.html) ELSE Top.html
            IN /\ stack' = Below
                     \o <<[Top EXCEPT !.phase = "conditionals", !.html = html],
                          PassFrame("applyLoops", html, Top.data, Top.renderStack,
                                    Top.depth)>>
               /\ UNCHANGED <<call, evaluated, included, result, Engine>>

\* renderContent: html = this.applyConditionals(html, ...)
CallApplyConditionals ==
    /\ Running("renderContent") /\ Top.phase = "conditionals"
    /\ stack' = Below
          \o <<[Top EXCEPT !.phase = "includes"],
               PassFrame("applyConditionals", Top.html, Top.data, Top.renderStack,
                         Top.depth)>>
    /\ UNCHANGED <<call, evaluated, included, result, Engine>>

\* renderContent: html = this.applyIncludes(html, ...)
CallApplyIncludes ==
    /\ Running("renderContent") /\ Top.phase = "includes"
    /\ stack' = Below
          \o <<[Top EXCEPT !.phase = "interpolate"],
               PassFrame("applyIncludes", Top.html, Top.data, Top.renderStack,
                         Top.depth)>>
    /\ UNCHANGED <<call, evaluated, included, result, Engine>>

\* The end of replace() with the pass calling itself at depth, not depth + 1.
FinishPass_SameDepth ==
    LET final == Top.acc \o SubSeq(Top.html, Top.pos, Len(Top.html))
        caller == stack[Len(stack) - 1]
    IN IF Top.didReplace
       THEN Below \o <<PassFrame(Top.fn, final, Top.data, Top.renderStack, Top.depth)>>
       ELSE SubSeq(stack, 1, Len(stack) - 2) \o <<[caller EXCEPT !.html = final]>>

\* The end of replace() in a pass: the rest of html joins the result; with
\* didReplace the pass calls itself on the result at depth + 1, else it
\* returns the result to renderContent.
FinishPass ==
    LET final == Top.acc \o SubSeq(Top.html, Top.pos, Len(Top.html))
        caller == stack[Len(stack) - 1]
    IN IF Top.didReplace
       THEN Below \o <<PassFrame(Top.fn, final, Top.data, Top.renderStack,
                                 Top.depth + 1)>>
       ELSE SubSeq(stack, 1, Len(stack) - 2) \o <<[caller EXCEPT !.html = final]>>

\* The frame of a pass whose callback calls renderContent for the match m.
InCallback(m, acc) ==
    [Top EXCEPT !.acc = acc, !.didReplace = TRUE, !.cb = TRUE, !.ms = m.ms, !.me = m.me]

\* The frame of a pass whose callback returned text for the match m.
Replaced(m, acc) ==
    [Top EXCEPT !.acc = acc, !.didReplace = TRUE, !.cb = FALSE, !.pos = m.me + 1,
                !.index = 0, !.pieces = <<>>, !.iterable = Undef, !.alias = ""]

ApplyLoops ==
    /\ Running("applyLoops") /\ ~Top.cb
    /\ LET m == MatchElement(Top.html, Top.pos, "xfor")
           tok == Top.html[m.ms]
           inner == SubSeq(Top.html, m.ms + 1, m.me - 1)
           alias == IF tok.xrow # "" THEN tok.xrow ELSE "item"
           iterable == safeEval(tok.xfor, Top.data)
           acc == Top.acc \o SubSeq(Top.html, Top.pos, m.ms - 1)
       IN IF ~m.found
          THEN /\ stack' = FinishPass
               /\ UNCHANGED <<call, evaluated, included, result, Engine>>
          ELSE IF iterable.err
          THEN Throw("ExpressionEvaluationError", tok.xfor, {tok.xfor})
          ELSE /\ evaluated' = evaluated \cup {tok.xfor}
               /\ UNCHANGED <<call, included, result, Engine>>
               /\ IF ~IsArray(iterable.val) \/ iterable.val.a = <<>>
                  THEN stack' = Below \o <<Replaced(m, acc)>>
                  ELSE stack' = Below
                          \o <<[InCallback(m, acc) EXCEPT
                                   !.index = 0, !.pieces = <<>>,
                                   !.iterable = iterable.val, !.alias = alias],
                               RCFrame(inner,
                                       ChildData(Top.data, alias, iterable.val.a[1], 0),
                                       Top.renderStack, Top.depth + 1)>>

ApplyConditionals ==
    /\ Running("applyConditionals") /\ ~Top.cb
    /\ LET m == MatchElement(Top.html, Top.pos, "xif")
           tok == Top.html[m.ms]
           inner == SubSeq(Top.html, m.ms + 1, m.me - 1)
           condition == safeEvalBoolean(tok.xif, Top.data)
           acc == Top.acc \o SubSeq(Top.html, Top.pos, m.ms - 1)
       IN IF ~m.found
          THEN /\ stack' = FinishPass
               /\ UNCHANGED <<call, evaluated, included, result, Engine>>
          ELSE IF condition.err
          THEN Throw("ExpressionEvaluationError", tok.xif, {tok.xif})
          ELSE /\ evaluated' = evaluated \cup {tok.xif}
               /\ UNCHANGED <<call, included, result, Engine>>
               /\ IF ~condition.val.b
                  THEN stack' = Below \o <<Replaced(m, acc)>>
                  ELSE stack' = Below
                          \o <<InCallback(m, acc),
                               RCFrame(inner, Top.data, Top.renderStack, Top.depth + 1)>>

ApplyIncludes ==
    /\ Running("applyIncludes") /\ ~Top.cb
    /\ LET m == MatchInclude(Top.html, Top.pos)
           tok == Top.html[m.ms]
           normalized == normalizeName(tok.tag)
           attributes == parseAttributes(tok.attrs, Top.data)
           acc == Top.acc \o SubSeq(Top.html, Top.pos, m.ms - 1)
           record == templateNameToRecord[normalized]
       IN IF ~m.found
          THEN /\ stack' = FinishPass
               /\ UNCHANGED <<call, evaluated, included, result, Engine>>
          ELSE IF attributes.err
          THEN Throw("ExpressionEvaluationError", attributes.expr, attributes.evals)
          ELSE IF \E i \in 1..Len(Top.renderStack) : Top.renderStack[i] = normalized
          THEN Throw("CyclicInclude", Top.renderStack \o <<normalized>>,
                     attributes.evals)
          ELSE /\ evaluated' = evaluated \cup attributes.evals
               /\ included' = included \cup {normalized}
               /\ UNCHANGED <<call, result, Engine>>
               /\ stack' = Below
                     \o <<InCallback(m, acc),
                          RCFrame(record.content, MergedData(Top.data, attributes.val),
                                  Top.renderStack \o <<normalized>>, Top.depth + 1)>>

\* What the callback of the pass below does with the string a nested
\* renderContent returned: the frames of the stack after it.
Resume(frames, html) ==
    LET f == frames[Len(frames)]
        under == SubSeq(frames, 1, Len(frames) - 1)
        tok == f.html[f.ms]
        m == [ms |-> f.ms, me |-> f.me]
        done(text) == under \o <<[f EXCEPT !.acc = f.acc \o text, !.cb = FALSE,
                                           !.pos = f.me + 1, !.index = 0,
                                           !.pieces = <<>>, !.iterable = Undef,
                                           !.alias = ""]>>
    IN CASE f.fn = "applyLoops" ->
              LET pieces == f.pieces \o <<LoopOpenTag(tok)>> \o html \o <<Close(tok.tag)>>
                  index == f.index + 1
              IN IF index < Len(f.iterable.a)
                 THEN under
                      \o <<[f EXCEPT !.pieces = pieces, !.index = index],
                           RCFrame(SubSeq(f.html, f.ms + 1, f.me - 1),
                                   ChildData(f.data, f.alias, f.iterable.a[index + 1], index),
                                   f.renderStack, f.depth + 1)>>
                 ELSE done(pieces)
         [] f.fn = "applyConditionals" ->
              done(<<IfOpenTag(tok)>> \o html \o <<Close(tok.tag)>>)
         [] OTHER -> done(html)

\* renderContent: html = this.interpolate(html, data); return html.  The
\* string goes to the callback that called renderContent or, from the first
\* frame, to render, which returns it; renderWithLayout then renders the
\* layout.
Interpolate ==
    /\ Running("renderContent") /\ Top.phase = "interpolate"
    /\ LET r == interpolate(Top.html, Top.data)
       IN IF r.err
          THEN Throw("ExpressionEvaluationError", r.expr, r.evals)
          ELSE /\ evaluated' = evaluated \cup r.evals
               /\ UNCHANGED <<included, Engine>>
               /\ IF Below # <<>>
                  THEN /\ stack' = Resume(Below, r.out)
                       /\ UNCHANGED <<call, result>>
                  ELSE IF call.stage = "inner"
                  THEN render([call EXCEPT !.stage = "layout", !.innerHtml = r.out],
                              call.layoutTemplateName,
                              LayoutData(call.data, call.contentVarName, r.out))
                  ELSE /\ stack' = <<>>
                       /\ result' = Returned(r.out)
                       /\ call' = [call EXCEPT !.stage = "done"]

Expand ==
    \/ RenderContent
    \/ ApplyLoops
    \/ CallApplyConditionals
    \/ ApplyConditionals
    \/ CallApplyIncludes
    \/ ApplyIncludes
    \/ Interpolate

(***************************************************************************)
(* The public methods                                                      *)
(***************************************************************************)
Render(requests) ==
    /\ Idle
    /\ \E r \in requests :
          /\ r.op = "render"
          /\ render(RenderCall(r.templateName, r.data), r.templateName, r.data)
    /\ evaluated' = {}
    /\ included' = {}
    /\ UNCHANGED Engine

RenderWithLayout(requests) ==
    /\ Idle
    /\ \E r \in requests :
          /\ r.op = "renderWithLayout"
          /\ render(LayoutCall(r.layoutTemplateName, r.templateName, r.data,
                               r.contentVarName),
                    r.templateName, r.data)
    /\ evaluated' = {}
    /\ included' = {}
    /\ UNCHANGED Engine

Reload ==
    /\ Idle
    /\ templateNameToRecord' = reload(fs).reg
    /\ call' = [NoCall EXCEPT !.op = "reload"]
    /\ result' = IF reload(fs).err THEN Thrown("IOError", <<>>) ELSE Returned(<<>>)
    /\ evaluated' = {}
    /\ included' = {}
    /\ UNCHANGED <<fs, caseInsensitiveNames, stack>>


(***************************************************************************)
(* A disk of templates, and the calls made                                 *)
(***************************************************************************)
\* Includes in the chain c0 -> c1 -> ... of templates that only include.
ChainLen == 52

\* Includes in the chain w0 -> w1 -> ... of templates whose include element
\* sits inside a conditional (even i) or a loop (odd i) element.
WrapLen == 27

ChainName(i) == <<"c", ToString(i)>>

WrapName(i) == <<"w", ToString(i)>>

\* The last template of the chain holds a conditional element that no data
\* of the calls keeps.
ChainFile(i) ==
    File(ChainName(i), ".html",
         IF i = ChainLen
         THEN <<Open(<<"i">>, NoExpr, "", <<"stop">>, <<>>), Ch("x"), Close(<<"i">>)>>
                 \o Text(<<"end">>)
         ELSE <<Self(ChainName(i + 1), <<>>)>>)

WrapFile(i) ==
    File(WrapName(i), ".html",
         IF i = WrapLen THEN Text(<<"end">>)
         ELSE IF i % 2 = 0
         THEN <<Open(<<"p">>, NoExpr, "", <<"t">>, <<>>), Self(WrapName(i + 1), <<>>),
                Close(<<"p">>)>>
         ELSE <<Open(<<"ul">>, <<"one">>, "", NoExpr, <<>>), Self(WrapName(i + 1), <<>>),
                Close(<<"ul">>)>>)

El(tag) == Open(<<tag>>, NoExpr, "", NoExpr, <<>>)

For(tag, expr) == Open(<<tag>>, expr, "", NoExpr, <<>>)

If(tag, expr) == Open(<<tag>>, NoExpr, "", expr, <<>>)

End(tag) == Close(<<tag>>)

Views ==
    << File(<<"User", "Card">>, ".html",
            <<Open(<<"div">>, NoExpr, "", NoExpr, Text(<<" class=", "\"", "card", "\"">>)),
              Mu(<<"name">>), End("div")>>),
       File(<<"page">>, ".HTML", <<El("p"), Ch("Hi"), End("p")>>),
       File(<<"notes">>, ".txt", Text(<<"not a template">>)),
       SubDir("partials",
              << File(<<"r">>, ".tpl",
                      <<NameDir(<<" ", "Row", " ">>), El("li"), Mu(<<"item", "n">>),
                        End("li")>>) >>),
       File(<<"esc">>, ".html", <<Mu(<<"v">>)>>),
       File(<<"raw">>, ".html", <<Raw(<<"v">>)>>),
       File(<<"bom">>, ".html", <<Ch("BOM"), Mu(<<"v">>), Mu(<<"nope">>)>>),
       File(<<"glob">>, ".html", <<Mu(<<"Object">>)>>),
       File(<<"incraw">>, ".html", <<Self(<<"raw">>, <<>>)>>),
       File(<<"loopraw">>, ".html", <<For("li", <<"items">>), Raw(<<"item">>), End("li")>>),
       File(<<"loop">>, ".html", <<For("li", <<"items">>), Mu(<<"item">>), End("li")>>),
       File(<<"rows">>, ".html",
            <<Ch("["),
              Open(<<"tr">>, <<"items">>, "row", NoExpr, Text(<<" class=", "\"", "r", "\"">>)),
              Mu(<<"$index">>), Ch(":"), Mu(<<"row", "n">>), Mu(<<"sep">>), End("tr"),
              Ch("]")>>),
       File(<<"loopdiv">>, ".html",
            <<For("div", <<"items">>), El("div"), Mu(<<"item">>), End("div"), End("div")>>),
       File(<<"looppath">>, ".html",
            <<For("li", <<"user", "items">>), Mu(<<"item">>), End("li")>>),
       File(<<"cond">>, ".html", <<Ch("("), If("p", <<"c">>), Mu(<<"v">>), End("p"), Ch(")")>>),
       File(<<"conddiv">>, ".html",
            <<If("div", <<"c">>), El("div"), Ch("a"), End("div"), Ch("b"), End("div")>>),
       File(<<"condfail">>, ".html",
            <<If("div", <<"c">>), For("li", <<"user", "items">>), Mu(<<"item">>), End("li"),
              End("div")>>),
       File(<<"condloop">>, ".html",
            <<If("div", <<"c">>), For("li", <<"items">>), Mu(<<"item">>), End("li"),
              End("div")>>),
       File(<<"inc">>, ".html",
            <<Self(<<"esc">>, <<AttrExpr("v", <<"w">>)>>), Ch("|"),
              Self(<<"br">>, <<>>), Self(<<"User", "Card">>, <<AttrLit("name", Text(<<"Al">>))>>)>>),
       File(<<"sa">>, ".html", <<Ch("a"), Self(<<"sa">>, <<>>)>>),
       File(<<"sb">>, ".html", <<Self(<<"sc">>, <<>>)>>),
       File(<<"sc">>, ".html", <<Self(<<"sb">>, <<>>)>>),
       File(<<"sd">>, ".html",
            <<If("p", <<"go">>), Self(<<"sd">>, <<AttrExpr("go", <<"nope">>)>>), End("p")>>),
       File(<<"bad">>, ".html", <<Mu(SyntaxErrorExpr)>>) >>

Shared ==
    << File(<<"layout">>, ".html",
            <<El("h1"), Mu(<<"title">>), End("h1"), Raw(<<"content">>)>>),
       File(<<"frame">>, ".htm", <<Ch("["), Raw(<<"body">>), Ch("]")>>),
       File(<<"safe">>, ".html", <<Mu(<<"content">>)>>),
       File(<<"user", "card">>, ".tpl", <<Ch("card:"), Mu(<<"name">>)>>),
       SubDir("chains",
              [i \in 1..(ChainLen + 1) |-> ChainFile(i - 1)]
              \o [i \in 1..(WrapLen + 1) |-> WrapFile(i - 1)]) >>

Disk == ("views" :> Dir(TRUE, FALSE, Views)) @@ ("shared" :> Dir(TRUE, FALSE, Shared))

S(chars) == Str(Text(chars))

RenderRequest(templateName, data) ==
    [op |-> "render", templateName |-> templateName, layoutTemplateName |-> <<>>,
     contentVarName |-> "", data |-> data]

LayoutRequest(layoutTemplateName, innerTemplateName, data, contentVarName) ==
    [op |-> "renderWithLayout", templateName |-> innerTemplateName,
     layoutTemplateName |-> layoutTemplateName, contentVarName |-> contentVarName,
     data |-> data]


\* Names asked for: registered ones in several spellings, and others.
RequestedNames ==
    { <<"user", "card">>, <<"User", "Card">>, <<" ", "USER", "card", "\t">>,
      <<"user", " ", "card">>, <<"page">>, <<"row">>, <<"Row", " ">>, <<"r">>,
      <<"notes">>, <<"nope">>, <<" ">>, <<"layout">>, <<"rows">>, <<"cond">>,
      <<"inc">> }

SomeData ==
    Obj(("name" :> S(<<"Al">>)) @@ ("title" :> S(<<"T">>)) @@ ("c" :> Bool(TRUE))
        @@ ("v" :> S(<<"x">>)) @@ ("w" :> S(<<"<", "&">>))
        @@ ("items" :> Arr(<<Obj("n" :> Num(1)), Obj("n" :> Num(2))>>)))

Requests ==
    {RenderRequest(n, d) : n \in RequestedNames, d \in {SomeData, Null}}
    \cup {LayoutRequest(l, n, SomeData, "content") :
             l \in {<<"layout">>, <<"nope">>}, n \in {<<"page">>, <<"nope">>, <<"r">>}}

\* The disk changes under the engine: a directory becomes unreadable, or
\* readable again.
FsChange ==
    /\ Idle
    /\ \E d \in DOMAIN fs : fs' = [fs EXCEPT ![d].fails = ~fs[d].fails]
    /\ UNCHANGED <<caseInsensitiveNames, templateNameToRecord, call, stack, evaluated,
                   included, result>>

\* new TemplateEngine(options): nothing is scanned yet.
Init ==
    /\ fs = Disk
    /\ caseInsensitiveNames \in BOOLEAN
    /\ templateNameToRecord = EmptyMap
    /\ call = NoCall
    /\ stack = <<>>
    /\ evaluated = {}
    /\ included = {}
    /\ result = NoResult

Next ==
    \/ Reload
    \/ FsChange
    \/ Render(Requests)
    \/ RenderWithLayout(Requests)
    \/ Expand

Spec == Init /\ [][Next]_vars


\* createTemplateEngine(options): the constructor, then reload().
InitLoaded ==
    /\ fs = Disk
    /\ caseInsensitiveNames \in BOOLEAN
    /\ templateNameToRecord = reload(Disk).reg
    /\ call = NoCall
    /\ stack = <<>>
    /\ evaluated = {}
    /\ included = {}
    /\ result = NoResult

(***************************************************************************)
(* Renders of the directive templates                                      *)
(***************************************************************************)
Secret == S(<<"S">>)

\* Strings a caller may hold in its data: plain text, text with the five
\* characters escapeHtml replaces, text that is already an entity, markup,
\* and text that reads as a directive or an interpolation site.
StringValues ==
    << S(<<>>), S(<<"x">>), Str(<<El("b")>>), S(<<"a", "&", "b", "<", "\"", "'", ">">>),
       S(<<"&", "lt;">>), S(<<"&", "amp;", "&">>),
       Str(<<Mu(<<"secret">>)>>), Str(<<Raw(<<"secret">>)>>),
       Str(<<Self(<<"esc">>, <<AttrExpr("v", <<"secret">>)>>)>>),
       Str(<<If("i", <<"secret">>), Ch("y"), End("i")>>) >>

OtherValues ==
    << Null, Undef, Num(0), Num(7), Bool(FALSE), Bool(TRUE), Arr(<<>>),
       Arr(<<Num(1), Null, S(<<"<">>)>>), Obj(EmptyMap) >>

Range(seq) == {seq[i] : i \in 1..Len(seq)}

\* { v: value, secret: 'S', sep: '-' }; an undefined v is left out.
DataWith(key, value) ==
    Obj((IF value = Undef THEN EmptyMap ELSE (key :> value))
        @@ ("secret" :> Secret) @@ ("sep" :> S(<<"-">>)))

Arrays ==
    << Arr(<<>>), Arr(<<S(<<"a">>)>>), Arr(<<S(<<"a">>), S(<<"<">>)>>),
       Arr(<<Obj("n" :> Num(1)), Obj("n" :> Num(2)), Obj("n" :> Num(3))>>),
       Arr(<<Str(<<Mu(<<"secret">>)>>)>>) >>

NotArrays == <<Null, Undef, Num(5), S(<<"a", "b">>), Obj("length" :> Num(2))>>

Conditions ==
    << Null, Undef, Num(0), S(<<>>), Bool(FALSE),
       Bool(TRUE), Num(1), S(<<"0">>), Arr(<<>>), Obj(EmptyMap) >>

RenderRequests ==
    {RenderRequest(n, DataWith("v", v)) :
        n \in {<<"esc">>, <<"raw">>, <<"bom">>, <<"glob">>},
        v \in Range(StringValues) \cup Range(OtherValues)}
    \cup {RenderRequest(n, DataWith("items", v)) :
            n \in {<<"loop">>, <<"rows">>, <<"loopdiv">>, <<"looppath">>},
            v \in Range(Arrays) \cup Range(NotArrays)}
    \cup {RenderRequest(n, Obj(("c" :> c) @@ ("v" :> v) @@ ("secret" :> Secret)
                               @@ ("items" :> Arr(<<Num(1)>>)))) :
            n \in {<<"cond">>, <<"conddiv">>, <<"condloop">>, <<"condfail">>},
            c \in Range(Conditions) \ {Undef},
            v \in {S(<<"x">>), Str(<<Mu(<<"secret">>)>>)}}
    \cup {RenderRequest(n, Obj(("v" :> S(<<"x">>)) @@ ("secret" :> Secret))) :
            n \in {<<"cond">>, <<"conddiv">>, <<"condloop">>, <<"condfail">>}}
    \cup {RenderRequest(<<"inc">>, DataWith("w", v)) :
            v \in {S(<<"x">>), S(<<"<">>), Str(<<Mu(<<"secret">>)>>), Undef}}
    \cup {RenderRequest(n, d) :
            n \in {<<"sa">>, <<"sb">>, <<"sc">>, <<"sd">>, <<"bad">>},
            d \in {Null, Obj("go" :> Bool(TRUE)), Obj("go" :> Bool(FALSE))}}

RenderNext ==
    \/ Render(RenderRequests)
    \/ Expand

SpecRender == InitLoaded /\ [][RenderNext]_vars

(***************************************************************************)
(* The registry under reload and lookup                                    *)
(***************************************************************************)
\* C1: every reload(), also one that stops part-way because scanning a
\* directory fails, leaves the registry holding either the complete record
\* set it held before or the complete record set of a full scan, never an
\* empty or partly filled one.
ReloadIsAtomic ==
    [][Reload =>
          \/ templateNameToRecord' = templateNameToRecord
          \/ /\ ~reload(fs).err
             /\ templateNameToRecord' = reload(fs).reg]_vars

\* The name n, as requested, is a spelling of the registered name k: n
\* without the whitespace around it reads as k, letter case aside unless
\* names are case-sensitive.
IsSpellingOf(n, k) ==
    \E i \in 1..(Len(n) + 1) : \E j \in 0..Len(n) :
        /\ j - i + 1 = Len(k)
        /\ \A x \in 1..(i - 1) : IsSpace(n[x])
        /\ \A x \in (j + 1)..Len(n) : IsSpace(n[x])
        /\ i <= j => ~IsSpace(n[i]) /\ ~IsSpace(n[j])
        /\ \A x \in 1..Len(k) :
              IF caseInsensitiveNames THEN ToLowerCase(n[i + x - 1]) = k[x]
              ELSE n[i + x - 1] = k[x]

\* C2: in every registry state, render(n, data) throws the template-not-found
\* error carrying n as requested, and returns no string, if n is a spelling
\* of no registered name; if it is one, the lookup succeeds.
NotFoundCarriesRequestedName ==
    (call.op = "render" /\ call.stage = "done") =>
        IF \E k \in DOMAIN templateNameToRecord : IsSpellingOf(call.templateName, k)
        THEN result.err # "TemplateNotFound"
        ELSE result = Thrown("TemplateNotFound", call.templateName)

\* A loaded registry, a name asked for in capitals and with whitespace
\* around it that is no registered name: the error carries it as asked.
NotFoundWitness ==
    /\ call.op = "render" /\ call.stage = "done"
    /\ <<"user", "card">> \in DOMAIN templateNameToRecord
    /\ result = Thrown("TemplateNotFound", <<" ", "USER", "card", "\t">>)


(***************************************************************************)
(* Includes and cycles                                                     *)
(***************************************************************************)
NoDuplicates(seq) == \A i, j \in 1..Len(seq) : seq[i] = seq[j] => i = j

\* C3: a render whose include pass came to an element naming the template
\* passed to render itself (and expanded it) raises CyclicInclude, and no
\* render stack holds a name twice.
SelfIncludeRaisesCyclicInclude ==
    /\ \A i \in 1..Len(stack) : NoDuplicates(stack[i].renderStack)
    /\ (call.op = "render" /\ call.stage = "done"
          /\ normalizeName(call.templateName) \in included)
       => result.err = "CyclicInclude"

(***************************************************************************)
(* Interpolation                                                           *)
(***************************************************************************)
\* The expressions written in a piece of markup.
ExprsOf(html) ==
    {html[i].expr : i \in {j \in 1..Len(html) : html[j].k \in {"mu", "raw"}}}
    \cup {html[i].xfor : i \in {j \in 1..Len(html) : html[j].k = "open"}}
    \cup {html[i].xif : i \in {j \in 1..Len(html) : html[j].k = "open"}}
    \cup UNION {{html[i].attrs[a].expr : a \in 1..Len(html[i].attrs)} :
                  i \in {j \in 1..Len(html) : html[j].k = "self"}}

\* The expressions written in the templates of the registry.
TemplateExprs ==
    UNION {ExprsOf(templateNameToRecord[n].content) : n \in DOMAIN templateNameToRecord}

\* Templates whose interpolation sites are in a loop body, in a conditional
\* body or in an included template.
BodySiteTemplates == {<<"loop">>, <<"cond">>, <<"inc">>}

\* C5: text substituted by the interpolation pass is final: a data value put
\* in place of a site in a loop body, a conditional body or an included
\* template is not scanned again by the enclosing render, so nothing but
\* the expressions written in the templates is ever evaluated.
InterpolatedTextIsFinal ==
    (call.op = "render" /\ call.templateName \in BodySiteTemplates)
        => evaluated \subseteq TemplateExprs

\* The entity escapeHtml is to put for a character.
EntityOf(tok) ==
    CASE tok = Ch("&") -> Text(<<"&", "amp;">>)
      [] tok = Ch("\"") -> Text(<<"&", "quot;">>)
      [] tok = Ch("'") -> Text(<<"&", "#39;">>)
      [] tok = Ch("<") -> Text(<<"&", "lt;">>)
      [] tok = Ch(">") -> Text(<<"&", "gt;">>)
      [] OTHER -> <<tok>>

\* A string with each of its special characters replaced by its entity, once.
Entities(str) == Flatten([i \in 1..Len(Chars(str)) |-> EntityOf(Chars(str)[i])])

Field(data, key) ==
    IF data.t = "object" /\ key \in DOMAIN data.o THEN data.o[key] ELSE Undef

Done(templateNames) ==
    call.op = "render" /\ call.stage = "done" /\ call.templateName \in templateNames

\* C6: for every string v, {{ v }} renders as v with each of & " ' < >
\* replaced by its entity, once; {{{ v }}} renders as v itself; a null or
\* absent v renders as the empty string in both.
EscapedAndRawInterpolation ==
    LET v == Field(call.data, "v")
    IN /\ (Done({<<"esc">>, <<"raw">>}) /\ IsNullish(v)) => result = Returned(<<>>)
       /\ (Done({<<"esc">>}) /\ v.t = "string") => result = Returned(Entities(v.s))
       /\ (Done({<<"raw">>}) /\ v.t = "string") => result = Returned(v.s)


(***************************************************************************)
(* Loops and conditionals                                                  *)
(***************************************************************************)
\* The close tag that ends the element opened at s, elements of the same
\* name nested in it counted.
ElementEnd(html, s) ==
    LET tag == html[s].tag
        opens(e) == Cardinality({i \in (s + 1)..(e - 1) :
                                    html[i].k = "open" /\ html[i].tag = tag})
        closes(e) == Cardinality({i \in (s + 1)..(e - 1) :
                                     html[i].k = "close" /\ html[i].tag = tag})
        ends(e) == html[e].k = "close" /\ html[e].tag = tag /\ opens(e) = closes(e)
    IN CHOOSE e \in (s + 1)..Len(html) :
          ends(e) /\ \A x \in (s + 1)..(e - 1) : ~ends(x)

\* The one element of html that carries the directive attr.
DirectiveAt(html, attr) ==
    CHOOSE s \in 1..Len(html) : html[s].k = "open" /\ html[s][attr] # NoExpr

Before(html, s) == SubSeq(html, 1, s - 1)

After(html, s) == SubSeq(html, ElementEnd(html, s) + 1, Len(html))

BodyOf(html, s) == SubSeq(html, s + 1, ElementEnd(html, s) - 1)

\* The source of the template a render call names.
SourceOf(c) == templateNameToRecord[normalizeName(c.templateName)].content

\* Templates of one x-for element, with text around it or elements of the
\* same name inside it.
LoopTemplates == {<<"loop">>, <<"rows">>, <<"loopdiv">>}

\* Items that hold no directive or interpolation syntax.
PlainItems(items) ==
    \A i \in 1..Len(items) :
        items[i].t = "string" => \A j \in 1..Len(items[i].s) : items[i].s[j].k = "ch"

\* The k-th copy (k from 0) of the x-for element at s: the element without
\* its loop attributes, its body rendered with the alias bound to the k-th
\* item and $index to k over the names of data.
LoopCopy(html, s, data, items, k) ==
    LET alias == IF html[s].xrow # "" THEN html[s].xrow ELSE "item"
        scope == ChildData(createRootDataProxy(data), alias, items[k + 1], k)
    IN <<LoopOpenTag(html[s])>> \o interpolate(BodyOf(html, s), scope).out
          \o <<Close(html[s].tag)>>

\* C7: an x-for element whose source is an array of length n is replaced by
\* n copies of the element, in array order and with nothing between them,
\* the k-th holding the body rendered with the alias bound to the k-th item
\* and $index to k, the other names of the scope still visible.
LoopEmitsCopiesInOrder ==
    LET html == SourceOf(call)
        s == DirectiveAt(html, "xfor")
        items == Field(call.data, "items")
    IN (Done(LoopTemplates) /\ IsArray(items) /\ PlainItems(items.a))
       => result = Returned(Before(html, s)
                            \o Flatten([k \in 1..Len(items.a) |->
                                          LoopCopy(html, s, call.data, items.a, k - 1)])
                            \o After(html, s))

\* C8: an x-for element whose source is null, absent, a number, a string or
\* an object is removed as a whole, open tag, body and close tag, and the
\* render raises no error.
LoopOverNonArrayIsRemoved ==
    LET html == SourceOf(call)
        s == DirectiveAt(html, "xfor")
    IN (Done(LoopTemplates) /\ ~IsArray(Field(call.data, "items")))
       => result = Returned(Before(html, s) \o After(html, s))

\* Templates of one x-if element, with text around it or elements of the
\* same name inside it.
CondTemplates == {<<"cond">>, <<"conddiv">>}

Falsy(v) == v \in {Null, Undef, Num(0), S(<<>>), Bool(FALSE)}

\* C9: an x-if element whose condition is null, undefined, 0, the empty
\* string or false contributes nothing; with any other condition it is
\* emitted without the x-if attribute, its body rendered in the scope around
\* it as it is.
ConditionalKeepsOrRemoves ==
    LET html == SourceOf(call)
        s == DirectiveAt(html, "xif")
        body == interpolate(BodyOf(html, s), createRootDataProxy(call.data)).out
    IN (Done(CondTemplates) /\ Field(call.data, "v") = S(<<"x">>))
       => result = Returned(Before(html, s)
                            \o (IF Falsy(Field(call.data, "c")) THEN <<>>
                                ELSE <<IfOpenTag(html[s])>> \o body
                                        \o <<Close(html[s].tag)>>)
                            \o After(html, s))


(***************************************************************************)
(* Chains of includes                                                      *)
(***************************************************************************)
\* Data under which the conditional and loop elements of the chain w0 -> w1
\* -> ... render their bodies once.
ChainData == Obj(("t" :> Bool(TRUE)) @@ ("one" :> Arr(<<Num(1)>>)))

ChainRequests ==
    {RenderRequest(ChainName(i), ChainData) : i \in 0..ChainLen}
    \cup {RenderRequest(WrapName(i), ChainData) : i \in 0..WrapLen}

ChainNext ==
    \/ Render(ChainRequests)
    \/ Expand

SpecChain == InitLoaded /\ [][ChainNext]_vars

\* The includes from the template named to the end of its chain.
IncludesFrom(name) ==
    IF \E i \in 0..ChainLen : name = ChainName(i)
    THEN ChainLen - (CHOOSE i \in 0..ChainLen : name = ChainName(i))
    ELSE WrapLen - (CHOOSE i \in 0..WrapLen : name = WrapName(i))

IsWrapped(name) == \E i \in 0..WrapLen : name = WrapName(i)

ChainDone == call.op = "render" /\ call.stage = "done"

LayoutValues ==
    {Null} \cup
    {Obj(("title" :> S(<<"T">>)) @@ ("v" :> v) @@ ("w" :> S(<<"<">>))
         @@ ("c" :> Bool(TRUE)) @@ ("items" :> Arr(<<Obj("n" :> Num(1))>>))
         @@ ("sep" :> S(<<"-">>)) @@ ("secret" :> Secret)
         @@ ("content" :> S(<<"old">>))) :
        v \in {S(<<"x">>), S(<<"<", "&">>), Str(<<Mu(<<"secret">>)>>)}}

LayoutRequests ==
    {LayoutRequest(l, n, d, cv) :
        l \in {<<"layout">>, <<"frame">>, <<"safe">>, <<"nope">>},
        n \in {<<"page">>, <<"esc">>, <<"inc">>, <<"cond">>, <<"rows">>, <<"bad">>,
               <<"nope">>},
        d \in LayoutValues,
        cv \in {"content", "body"}}

\* After renderWithLayout has returned or thrown, its caller calls
\* render(innerTemplateName, data) itself.
RenderInnerAgain ==
    /\ Idle
    /\ call.op = "renderWithLayout" /\ call.again = ""
    /\ render([call EXCEPT !.again = "inner", !.first = result, !.stage = "render"],
              call.templateName, call.data)
    /\ evaluated' = {}
    /\ included' = {}
    /\ UNCHANGED Engine

\* With the string that call returned, the caller calls
\* render(layoutTemplateName, data and contentVarName: that string).
RenderLayoutAgain ==
    /\ Idle
    /\ call.again = "inner" /\ result.status = "ok"
    /\ LET props == IF call.data.t = "object" THEN call.data.o ELSE EmptyMap
           data == Obj([p \in DOMAIN props \cup {call.contentVarName} |->
                           IF p = call.contentVarName THEN Str(result.out)
                           ELSE props[p]])
       IN render([call EXCEPT !.again = "layout", !.stage = "render"],
                 call.layoutTemplateName, data)
    /\ evaluated' = {}
    /\ included' = {}
    /\ UNCHANGED Engine

LayoutNext ==
    \/ RenderWithLayout(LayoutRequests)
    \/ RenderInnerAgain
    \/ RenderLayoutAgain
    \/ Expand

SpecLayout == InitLoaded /\ [][LayoutNext]_vars

\* renderWithLayout(layout, inner, data, contentVar) returns or throws what
\* render(layout, data plus contentVar: render(inner, data)) does, an error
\* of the inner render coming first.
LayoutIsTwoRenders ==
    /\ (call.stage = "done" /\ call.again = "inner" /\ result.status = "error")
       => call.first = result
    /\ (call.stage = "done" /\ call.again = "layout") => call.first = result

\* renderWithLayout('layout', 'page', {title: 'T'}) with the layout
\* <h1>{{ title }}</h1>{{{ content }}} and the page <p>Hi</p>.
LayoutExample ==
    (/\ call.op = "renderWithLayout" /\ call.stage = "done" /\ call.again = ""
     /\ call.layoutTemplateName = <<"layout">> /\ call.templateName = <<"page">>
     /\ call.contentVarName = "content"
     /\ Field(call.data, "title") = S(<<"T">>))
    => result = Returned(<<El("h1"), Ch("T"), End("h1"), El("p"), Ch("Hi"), End("p")>>)

\* The layout [{{{ body }}}] holds the inner HTML as the inner render
\* returned it.
LayoutReceivesInnerHtmlUnescaped ==
    (/\ call.stage = "done" /\ call.again = "inner" /\ result.status = "ok"
     /\ call.layoutTemplateName = <<"frame">> /\ call.contentVarName = "body")
    => call.first = Returned(<<Ch("[")>> \o result.out \o <<Ch("]")>>)

\* C10: renderWithLayout(layout, inner, data, contentVar) returns exactly
\* render(layout, data plus the one property contentVar = render(inner,
\* data)): the inner template is rendered first, an error of the inner render
\* propagates without the layout being rendered, and a layout with the
\* content variable in a triple-brace site receives the inner HTML unescaped.
RenderWithLayoutComposes ==
    /\ LayoutIsTwoRenders
    /\ LayoutExample
    /\ LayoutReceivesInnerHtmlUnescaped


(***************************************************************************)
(* Identifiers bound nowhere                                               *)
(***************************************************************************)
\* Templates of sites whose identifier (nope, Object) no data of the calls
\* binds.
UnboundTemplates == {<<"bom">>, <<"glob">>}

\* C11: an identifier bound in no layer of the render scope evaluates to
\* absent: its {{ }} site renders as the empty string, without an error and
\* without a value from outside the data.
UnboundIdentifierRendersEmpty ==
    (/\ Done(UnboundTemplates)
     /\ IsNullish(Field(call.data, "v"))
     /\ IsNullish(Field(call.data, "nope")) /\ IsNullish(Field(call.data, "Object")))
    => result = Returned(<<>>)


(***************************************************************************)
(* Termination                                                             *)
(***************************************************************************)
\* Data whose strings, put in place of a {{{ }}} site, read as an include
\* element or as a loop element: the pass that calls itself on its result
\* finds them there.
MarkupValues ==
    << S(<<"x">>),
       Str(<<Self(<<"raw">>, <<>>)>>),
       Str(<<Self(<<"incraw">>, <<>>)>>),
       Str(<<For("b", <<"items">>), Ch("y"), End("b")>>),
       Str(<<For("b", <<"items">>), Raw(<<"item">>), End("b")>>),
       Str(<<If("b", <<"secret">>), Self(<<"raw">>, <<>>), End("b")>>) >>

\* Templates that include themselves or each other, nest elements of one
\* name, or include more than one template.
CyclicAndNested ==
    {<<"sa">>, <<"sb">>, <<"sc">>, <<"sd">>, <<"loopdiv">>, <<"conddiv">>,
     <<"condloop">>, <<"condfail">>, <<"inc">>}

TermRequests ==
    {r \in RenderRequests : r.templateName \in CyclicAndNested}
    \cup {RenderRequest(<<"incraw">>, DataWith("v", v)) : v \in Range(MarkupValues)}
    \cup {RenderRequest(<<"loopraw">>, DataWith("items", Arr(<<v>>))) :
             v \in Range(MarkupValues)}
    \cup {RenderRequest(ChainName(i), ChainData) : i \in 0..2}
    \cup {RenderRequest(WrapName(i), ChainData) : i \in 0..2}

TermNext ==
    \/ Render(TermRequests)
    \/ Expand

\* A call that has begun keeps running, the engine being synchronous code:
\* weak fairness of Expand.  Expand is enabled exactly while a call runs
\* (call.stage # "done"), so that fairness reads: always eventually no call
\* runs or an Expand step is taken.
SpecTerminates ==
    /\ InitLoaded
    /\ [][TermNext]_vars
    /\ ([]<>(call.stage = "done") \/ []<><<Expand>>_vars)

\* C12: every render call terminates, returning a string or raising an
\* error, whatever the templates and the data: the expansions of loops,
\* conditionals and includes and the passes calling themselves on their
\* results never go on forever.
RenderTerminates == (call.stage # "done") ~> (call.stage = "done")

\* A template including raw = {{{ v }}} with v = '<raw/>': every round of
\* the include pass finds the include element again, until the depth check
\* ends the render.
RegeneratedIncludeWitness ==
    /\ Done({<<"incraw">>})
    /\ Field(call.data, "v") = Str(<<Self(<<"raw">>, <<>>)>>)
    /\ result = Thrown("RenderDepthExceeded", <<>>)


(***************************************************************************)
(* The depth counter                                                       *)
(***************************************************************************)
\* C13: within one render call tree the depth passed to a nested call, a
\* recursive renderContent or a pass calling itself, is never smaller than
\* its caller's, and the depth counter is at most 50: no pass runs with a
\* depth above 50, and renderContent entered with a depth above 50 does
\* nothing but raise the render-depth-exceeded error.
DepthIsMonotoneAndBounded ==
    /\ \A i, j \in 1..Len(stack) : i <= j => stack[i].depth <= stack[j].depth
    /\ \A i \in 1..Len(stack) :
          \/ stack[i].depth <= 50
          \/ /\ i = Len(stack)
             /\ stack[i].fn = "renderContent"
             /\ stack[i].phase = "enter"


(***************************************************************************)
(* The body of a false conditional                                         *)
(***************************************************************************)
\* Templates of one x-if element whose body holds a loop over user.items,
\* which no data of the calls can evaluate (user is absent).
FailingBodyTemplates == {<<"condfail">>}

\* C14: when the condition of an x-if element is false, nothing in the body
\* of the element is evaluated before the element is removed: the render
\* evaluates the condition only, raises no error and the element leaves
\* nothing in the output.
FalseConditionSkipsBody ==
    (Done(FailingBodyTemplates) /\ Falsy(Field(call.data, "c")))
    => /\ result = Returned(<<>>)
       /\ evaluated = {<<"c">>}


====
